---------------------------- MODULE Spec2Model ----------------------------
(***************************************************************************)
(* Model of package pbsmetrics (metrics.go): the label taxonomy (string-   *)
(* backed restricted-domain types, their declared constants and their      *)
(* enumeration accessors), the label bundles, and the MetricsEngine        *)
(* recording interface.                                                    *)
(*                                                                         *)
(* Two specifications share the variables:                                 *)
(*   Spec        callers invoke the enumeration accessors and overwrite    *)
(*               elements of the slices they received;                     *)
(*   EngineSpec  the serving pipeline builds label bundles and invokes the *)
(*               operations of MetricsEngine on a metrics backend.         *)
(***************************************************************************)
EXTENDS Integers, Sequences, FiniteSets, TLC

Range(s) == {s[i] : i \in DOMAIN s}

\* Bounds of the model.
MaxWrites == 1
MaxCalls == 2

(***************************************************************************)
(* Declared constants, one definition per Go constant.                     *)
(***************************************************************************)
PublisherUnknown == "unknown"

DemandWeb == "web"
DemandApp == "app"
DemandUnknown == "unknown"

ReqTypeLegacy == "legacy"
ReqTypeORTB2Web == "openrtb2-web"
ReqTypeORTB2App == "openrtb2-app"
ReqTypeAMP == "amp"
ReqTypeVideo == "video"

ImpTypeBanner == "banner"
ImpTypeVideo == "video"
ImpTypeAudio == "audio"
ImpTypeNative == "native"

BrowserSafari == "safari"
BrowserOther == "other"

CookieFlagYes == "exists"
CookieFlagNo == "no"
CookieFlagUnknown == "unknown"

RequestStatusOK == "ok"
RequestStatusBadInput == "badinput"
RequestStatusErr == "err"
RequestStatusNetworkErr == "networkerr"
\* (variant: the token spelled with hyphens)
RequestStatusBlacklistedHyphenated == "blacklisted-account-or-app"
RequestStatusBlacklisted == "blacklistedacctorapp"

AdapterBidPresent == "bid"
AdapterBidNone == "nobid"

AdapterErrorBadInput == "badinput"
AdapterErrorBadServerResponse == "badserverresponse"
AdapterErrorTimeout == "timeout"
AdapterErrorFailedToRequestBids == "failedtorequestbid"
\* (variant: the token without its suffix)
AdapterErrorUnknownShort == "unknown"
AdapterErrorUnknown == "unknown_error"

CacheHit == "hit"
CacheMiss == "miss"

RequestActionSet == "set"
\* (variant: the token without its underscore)
RequestActionOptOutJoined == "optout"
RequestActionOptOut == "opt_out"
RequestActionGDPR == "gdpr"
RequestActionErr == "err"

(***************************************************************************)
(* The const blocks: the constants declared with each type, in declaration *)
(* order.                                                                  *)
(***************************************************************************)
DemandSourceConsts == <<DemandWeb, DemandApp, DemandUnknown>>
RequestTypeConsts ==
    <<ReqTypeLegacy, ReqTypeORTB2Web, ReqTypeORTB2App, ReqTypeAMP, ReqTypeVideo>>
ImpMediaTypeConsts == <<ImpTypeBanner, ImpTypeVideo, ImpTypeAudio, ImpTypeNative>>
BrowserConsts == <<BrowserSafari, BrowserOther>>
CookieFlagConsts == <<CookieFlagYes, CookieFlagNo, CookieFlagUnknown>>
RequestStatusConsts ==
    <<RequestStatusOK, RequestStatusBadInput, RequestStatusErr,
      RequestStatusNetworkErr, RequestStatusBlacklisted>>
AdapterBidConsts == <<AdapterBidPresent, AdapterBidNone>>
AdapterErrorConsts ==
    <<AdapterErrorBadInput, AdapterErrorBadServerResponse, AdapterErrorTimeout,
      AdapterErrorFailedToRequestBids, AdapterErrorUnknown>>
CacheResultConsts == <<CacheHit, CacheMiss>>
RequestActionConsts ==
    <<RequestActionSet, RequestActionOptOut, RequestActionGDPR, RequestActionErr>>

(***************************************************************************)
(* The accessors: each returns the slice literal written in its body.      *)
(***************************************************************************)
DemandTypes == <<DemandWeb, DemandApp, DemandUnknown>>

\* (variant: an accessor not updated when ReqTypeVideo was declared)
RequestTypesNoVideo == <<ReqTypeLegacy, ReqTypeORTB2Web, ReqTypeORTB2App, ReqTypeAMP>>
RequestTypes ==
    <<ReqTypeLegacy, ReqTypeORTB2Web, ReqTypeORTB2App, ReqTypeAMP, ReqTypeVideo>>

ImpTypes == <<ImpTypeBanner, ImpTypeVideo, ImpTypeAudio, ImpTypeNative>>

BrowserTypes == <<BrowserSafari, BrowserOther>>

CookieTypes == <<CookieFlagYes, CookieFlagNo, CookieFlagUnknown>>

RequestStatuses ==
    <<RequestStatusOK, RequestStatusBadInput, RequestStatusErr,
      RequestStatusNetworkErr, RequestStatusBlacklisted>>

\* (variant: a value listed twice)
AdapterBidsRepeated == <<AdapterBidPresent, AdapterBidNone, AdapterBidNone>>
AdapterBids == <<AdapterBidPresent, AdapterBidNone>>

AdapterErrors ==
    <<AdapterErrorBadInput, AdapterErrorBadServerResponse, AdapterErrorTimeout,
      AdapterErrorFailedToRequestBids, AdapterErrorUnknown>>

\* (variant: CacheMiss left out of the list)
CacheResultsHitOnly == <<CacheHit>>
CacheResults == <<CacheHit, CacheMiss>>

RequestActions ==
    <<RequestActionSet, RequestActionOptOut, RequestActionGDPR, RequestActionErr>>

\* The ten accessors, by name.
Accessors ==
    {"DemandTypes", "RequestTypes", "ImpTypes", "BrowserTypes", "CookieTypes",
     "RequestStatuses", "AdapterBids", "AdapterErrors", "CacheResults",
     "RequestActions"}

\* The value accessor a returns.
Literal(a) ==
    CASE a = "DemandTypes" -> DemandTypes
      [] a = "RequestTypes" -> RequestTypes
      [] a = "ImpTypes" -> ImpTypes
      [] a = "BrowserTypes" -> BrowserTypes
      [] a = "CookieTypes" -> CookieTypes
      [] a = "RequestStatuses" -> RequestStatuses
      [] a = "AdapterBids" -> AdapterBids
      [] a = "AdapterErrors" -> AdapterErrors
      [] a = "CacheResults" -> CacheResults
      [] a = "RequestActions" -> RequestActions

\* The constants declared with the element type of accessor a.
Declared(a) ==
    CASE a = "DemandTypes" -> DemandSourceConsts
      [] a = "RequestTypes" -> RequestTypeConsts
      [] a = "ImpTypes" -> ImpMediaTypeConsts
      [] a = "BrowserTypes" -> BrowserConsts
      [] a = "CookieTypes" -> CookieFlagConsts
      [] a = "RequestStatuses" -> RequestStatusConsts
      [] a = "AdapterBids" -> AdapterBidConsts
      [] a = "AdapterErrors" -> AdapterErrorConsts
      [] a = "CacheResults" -> CacheResultConsts
      [] a = "RequestActions" -> RequestActionConsts

(***************************************************************************)
(* State.                                                                  *)
(***************************************************************************)
VARIABLES
    heap,       \* backing arrays of the slices the accessors returned
    held,       \* per caller: the slice it holds (accessor, address) or NoSlice
    ret,        \* per caller: the value its latest accessor call returned
    dirty,      \* per caller: it wrote into the slice it holds
    nwrites,    \* element writes so far
    ncalls,     \* MetricsEngine operations invoked so far
    lastOp,     \* the operation invoked last
    lastRet,    \* the result values that invocation handed to its caller
    pubRead,    \* backend: the PubID it read from the latest label bundle
    pubAssigned, \* whether the pipeline assigned PubID in that bundle
    storedReq,  \* backend: stored-request cache counters per CacheResult
    storedImp,  \* backend: stored-impression cache counters per CacheResult
    passed,     \* the (cacheResult, inc) pairs passed to RecordStoredReqCacheResult
    errCount,   \* backend: error-attributed increments per AdapterError
    adapterCall \* the latest RecordAdapterRequest: errors that occurred, bundle, counters before

enumVars == <<heap, held, ret, dirty, nwrites>>
engineVars ==
    <<ncalls, lastOp, lastRet, pubRead, pubAssigned, storedReq,
      storedImp, passed, errCount, adapterCall>>
vars == <<enumVars, engineVars>>

Callers == {"c1", "c2"}
Addrs == 1 .. Cardinality(Callers)
NoSlice == [acc |-> "none"]

\* A value of no enumeration: any string converts to a restricted-domain type.
Foreign == "not-a-legal-value"

\* Addresses no caller other than c refers to.
FreeAddrs(c) ==
    {ad \in Addrs : \A o \in Callers \ {c} : held[o] = NoSlice \/ held[o].addr # ad}

\* (variant: one backing array per accessor, shared by every caller holding
\* that accessor's list)
SliceAddrShared(a, c) ==
    IF \E o \in Callers \ {c} : held[o] # NoSlice /\ held[o].acc = a
    THEN held[CHOOSE o \in Callers \ {c} : held[o] # NoSlice /\ held[o].acc = a].addr
    ELSE CHOOSE ad \in FreeAddrs(c) : \A o \in FreeAddrs(c) : ad <= o

\* Each evaluation of a slice literal allocates a backing array of its own.
SliceAddr(a, c) ==
    CHOOSE ad \in FreeAddrs(c) : \A o \in FreeAddrs(c) : ad <= o

EnumInit ==
    /\ heap = [ad \in Addrs |-> <<>>]
    /\ held = [c \in Callers |-> NoSlice]
    /\ ret = [c \in Callers |-> NoSlice]
    /\ dirty = [c \in Callers |-> FALSE]
    /\ nwrites = 0

\* Caller c calls accessor a and keeps the returned slice.
Call(c, a) ==
    LET ad == SliceAddr(a, c) IN
    /\ heap' = [heap EXCEPT ![ad] = Literal(a)]
    /\ held' = [held EXCEPT ![c] = [acc |-> a, addr |-> ad]]
    /\ ret' = [ret EXCEPT ![c] = [acc |-> a, list |-> Literal(a)]]
    /\ dirty' = [dirty EXCEPT ![c] = FALSE]
    /\ UNCHANGED <<nwrites, engineVars>>

\* Caller c assigns element i of the slice it holds.
Write(c, i, v) ==
    /\ held[c] # NoSlice
    /\ nwrites < MaxWrites
    /\ i \in DOMAIN heap[held[c].addr]
    /\ heap' = [heap EXCEPT ![held[c].addr][i] = v]
    /\ dirty' = [dirty EXCEPT ![c] = TRUE]
    /\ nwrites' = nwrites + 1
    /\ UNCHANGED <<held, ret, engineVars>>


(***************************************************************************)
(* Label bundles.                                                          *)
(***************************************************************************)
\* The value of a string field a struct literal does not assign.
ZeroString == ""

\* A Labels literal; PubID is assigned only when assignPub.
NewLabels(src, rt, br, ck, st, assignPub, pub) ==
    [Source |-> src, RType |-> rt,
     PubID |-> IF assignPub THEN pub ELSE ZeroString,
     Browser |-> br, CookieFlag |-> ck, RequestStatus |-> st]

\* A map[AdapterError]struct{} as the number of entries stored under each
\* key; m[e] = struct{}{} adds the key when it is absent and replaces the
\* entry when it is present.
\* (variant: a second entry for a key already present)
MapInsertRepeating(m, e) ==
    IF e \in DOMAIN m THEN [m EXCEPT ![e] = @ + 1] ELSE m @@ (e :> 1)
MapInsert(m, e) == IF e \in DOMAIN m THEN m ELSE m @@ (e :> 1)

\* The map after the errors of ins were inserted one by one.
RECURSIVE MapOf(_)
MapOf(ins) ==
    IF ins = <<>> THEN <<>>
    ELSE MapInsert(MapOf(SubSeq(ins, 1, Len(ins) - 1)), ins[Len(ins)])

\* An AdapterLabels literal; errs is the AdapterErrors map.
NewAdapterLabels(src, rt, adapter, br, ck, bids, errs, assignPub, pub) ==
    [Source |-> src, RType |-> rt, Adapter |-> adapter,
     PubID |-> IF assignPub THEN pub ELSE ZeroString,
     Browser |-> br, CookieFlag |-> ck, AdapterBids |-> bids,
     AdapterErrors |-> errs]

(***************************************************************************)
(* The MetricsEngine interface: its methods and their parameters.          *)
(***************************************************************************)
MetricsEngine ==
    <<[name |-> "RecordConnectionAccept", params |-> <<"bool">>],
      [name |-> "RecordConnectionClose", params |-> <<"bool">>],
      [name |-> "RecordRequest", params |-> <<"Labels">>],
      [name |-> "RecordImps", params |-> <<"ImpLabels">>],
      [name |-> "RecordLegacyImps", params |-> <<"Labels", "int">>],
      [name |-> "RecordRequestTime", params |-> <<"Labels", "Duration">>],
      [name |-> "RecordAdapterRequest", params |-> <<"AdapterLabels">>],
      [name |-> "RecordAdapterPanic", params |-> <<"AdapterLabels">>],
      [name |-> "RecordAdapterBidReceived",
       params |-> <<"AdapterLabels", "BidType", "bool">>],
      [name |-> "RecordAdapterPrice", params |-> <<"AdapterLabels", "float64">>],
      [name |-> "RecordAdapterTime", params |-> <<"AdapterLabels", "Duration">>],
      [name |-> "RecordCookieSync", params |-> <<>>],
      [name |-> "RecordAdapterCookieSync", params |-> <<"BidderName", "bool">>],
      [name |-> "RecordUserIDSet", params |-> <<"UserLabels">>],
      [name |-> "RecordStoredReqCacheResult", params |-> <<"CacheResult", "int">>],
      [name |-> "RecordStoredImpCacheResult", params |-> <<"CacheResult", "int">>],
      [name |-> "RecordPrebidCacheRequestTime", params |-> <<"bool", "Duration">>]>>

Ops == {MetricsEngine[i].name : i \in DOMAIN MetricsEngine}

\* The result types method op declares: none of the methods declares any.
\* (variant: RecordUserIDSet declared with an error result)
ResultsWithError(op) == IF op = "RecordUserIDSet" THEN <<"error">> ELSE <<>>
Results(op) == <<>>

\* The values a call of op can hand back: one per declared result.
ReturnValues(op) ==
    IF Results(op) = <<>> THEN {<<>>} ELSE {<<"nil">>, <<"failure">>}

(***************************************************************************)
(* A metrics backend implementing the interface with counters.             *)
(***************************************************************************)
NoPub == "<no bundle read>"
NoCall == [occurred |-> {"none"}]

\* Sample inputs of the pipeline.
Pubs == {PublisherUnknown, "pub-1"}
Incs == {2, 5}
MaxInserts == 2
SampleErrors == {AdapterErrorBadInput, AdapterErrorTimeout, AdapterErrorUnknown}
Inserts == UNION {[1 .. n -> SampleErrors] : n \in 0 .. MaxInserts}

\* The number of entries of map m.
RECURSIVE Entries(_)
Entries(m) ==
    IF DOMAIN m = {} THEN 0
    ELSE LET e == CHOOSE x \in DOMAIN m : TRUE
         IN m[e] + Entries([x \in DOMAIN m \ {e} |-> m[x]])

\* The orders in which a range loop can visit the entries of map m.
IterationOrders(m) ==
    {s \in [1 .. Entries(m) -> DOMAIN m] :
        \A e \in DOMAIN m : Cardinality({i \in DOMAIN s : s[i] = e}) = m[e]}

\* Counter series registered for every value an accessor lists.
Registered(values) == [v \in Range(values) |-> 0]

\* One error-attributed increment per key visited.
RECURSIVE MarkErrors(_, _)
MarkErrors(cnt, keys) ==
    IF keys = <<>> THEN cnt
    ELSE LET e == keys[1]
             rest == MarkErrors(cnt, Tail(keys))
         IN IF e \in DOMAIN rest THEN [rest EXCEPT ![e] = @ + 1] ELSE rest

\* A cache meter adds the batch increment to the series of result r.
CacheMark(cnt, r, inc) ==
    IF r \in DOMAIN cnt THEN [cnt EXCEPT ![r] = @ + inc] ELSE cnt

EngineInit ==
    /\ ncalls = 0
    /\ lastOp = "none"
    /\ lastRet = <<>>
    /\ pubRead = NoPub
    /\ pubAssigned = FALSE
    /\ storedReq = Registered(CacheResults)
    /\ storedImp = Registered(CacheResults)
    /\ passed = <<>>
    /\ errCount = Registered(AdapterErrors)
    /\ adapterCall = NoCall

\* What every invocation of op does: the backend records the event and the
\* caller receives the declared results.
Invoke(op) ==
    /\ ncalls < MaxCalls
    /\ ncalls' = ncalls + 1
    /\ lastOp' = op
    /\ lastRet' \in ReturnValues(op)
    /\ UNCHANGED enumVars

\* An operation whose arguments carry no label bundle with a PubID.
Event(op) ==
    /\ Invoke(op)
    /\ UNCHANGED <<pubRead, pubAssigned, storedReq, storedImp, passed, errCount,
                   adapterCall>>

\* An operation taking a Labels or AdapterLabels bundle: the backend reads
\* the bundle's PubID.
WithBundle(op, labels, assigned) ==
    /\ Invoke(op)
    /\ pubRead' = labels.PubID
    /\ pubAssigned' = assigned

\* The Labels bundles the pipeline builds, each with whether PubID was assigned.
LabelsInputs ==
    {[labels |-> NewLabels(src, ReqTypeORTB2Web, BrowserOther, CookieFlagYes,
                           RequestStatusOK, pc[1], pc[2]),
      assigned |-> pc[1]] :
        src \in Range(DemandTypes),
        pc \in ({TRUE} \X Pubs) \cup {<<FALSE, ZeroString>>}}

\* The AdapterLabels bundles the pipeline builds for an adapter call during
\* which the errors ins occurred.
AdapterLabelsInputs(ins) ==
    {[labels |-> NewAdapterLabels(DemandWeb, ReqTypeORTB2Web, "appnexus",
                                  BrowserOther, CookieFlagYes, bids, MapOf(ins),
                                  pc[1], pc[2]),
      assigned |-> pc[1]] :
        bids \in Range(AdapterBids),
        pc \in ({TRUE} \X Pubs) \cup {<<FALSE, ZeroString>>}}

\* An operation taking Labels.
LabelsEvent(op) ==
    \E b \in LabelsInputs :
        /\ WithBundle(op, b.labels, b.assigned)
        /\ UNCHANGED <<storedReq, storedImp, passed, errCount, adapterCall>>

\* An operation taking AdapterLabels, other than RecordAdapterRequest.
AdapterEvent(op) ==
    \E b \in AdapterLabelsInputs(<<>>) :
        /\ WithBundle(op, b.labels, b.assigned)
        /\ UNCHANGED <<storedReq, storedImp, passed, errCount, adapterCall>>

RecordConnectionAccept == Event("RecordConnectionAccept")
RecordConnectionClose == Event("RecordConnectionClose")

RecordRequest == LabelsEvent("RecordRequest")

RecordImps == Event("RecordImps")

RecordLegacyImps == LabelsEvent("RecordLegacyImps")

RecordRequestTime == LabelsEvent("RecordRequestTime")

\* The backend counts one error per entry of labels.AdapterErrors, visiting
\* the entries in any order.
RecordAdapterRequest ==
    \E ins \in Inserts : \E b \in AdapterLabelsInputs(ins) :
        /\ WithBundle("RecordAdapterRequest", b.labels, b.assigned)
        /\ \E order \in IterationOrders(b.labels.AdapterErrors) :
              errCount' = MarkErrors(errCount, order)
        /\ adapterCall' = [occurred |-> Range(ins),
                           inserts |-> Len(ins),
                           errors |-> b.labels.AdapterErrors,
                           before |-> errCount]
        /\ UNCHANGED <<storedReq, storedImp, passed>>

RecordAdapterPanic == AdapterEvent("RecordAdapterPanic")
RecordAdapterBidReceived == AdapterEvent("RecordAdapterBidReceived")
RecordAdapterPrice == AdapterEvent("RecordAdapterPrice")
RecordAdapterTime == AdapterEvent("RecordAdapterTime")
RecordCookieSync == Event("RecordCookieSync")
RecordAdapterCookieSync == Event("RecordAdapterCookieSync")
RecordUserIDSet == Event("RecordUserIDSet")

RecordStoredReqCacheResult ==
    \E cacheResult \in Range(CacheResultConsts), inc \in Incs :
        /\ Invoke("RecordStoredReqCacheResult")
        /\ storedReq' = CacheMark(storedReq, cacheResult, inc)
        /\ passed' = Append(passed, <<cacheResult, inc>>)
        /\ UNCHANGED <<pubRead, pubAssigned, storedImp, errCount, adapterCall>>

RecordStoredImpCacheResult ==
    \E cacheResult \in Range(CacheResultConsts), inc \in Incs :
        /\ Invoke("RecordStoredImpCacheResult")
        /\ storedImp' = CacheMark(storedImp, cacheResult, inc)
        /\ UNCHANGED <<pubRead, pubAssigned, storedReq, passed, errCount,
                       adapterCall>>

RecordPrebidCacheRequestTime == Event("RecordPrebidCacheRequestTime")

EngineNext ==
    \/ RecordConnectionAccept
    \/ RecordConnectionClose
    \/ RecordRequest
    \/ RecordImps
    \/ RecordLegacyImps
    \/ RecordRequestTime
    \/ RecordAdapterRequest
    \/ RecordAdapterPanic
    \/ RecordAdapterBidReceived
    \/ RecordAdapterPrice
    \/ RecordAdapterTime
    \/ RecordCookieSync
    \/ RecordAdapterCookieSync
    \/ RecordUserIDSet
    \/ RecordStoredReqCacheResult
    \/ RecordStoredImpCacheResult
    \/ RecordPrebidCacheRequestTime

Init == EnumInit /\ EngineInit

Next ==
    \/ \E c \in Callers, a \in Accessors : Call(c, a)
    \/ \E c \in Callers, i \in 1 .. 5, v \in {Foreign, RequestStatusOK, CacheMiss} :
          Write(c, i, v)

Spec == Init /\ [][Next]_vars

EngineSpec == Init /\ [][EngineNext]_vars

(***************************************************************************)
(* Properties of the enumeration accessors (checked under Spec).           *)
(***************************************************************************)
\* The callers whose latest call was to accessor a.
Got(a) == {c \in Callers : ret[c] # NoSlice /\ ret[c].acc = a}

\* C1: for each of the ten restricted-domain types, the set of values its
\* accessor returns equals the set of constants declared with that type: no
\* declared constant is missing and no returned value is undeclared.
C1_AccessorEqualsDeclared ==
    \A c \in Callers :
        ret[c] # NoSlice => Range(ret[c].list) = Range(Declared(ret[c].acc))

\* C1 witness: accessor calls returned the five request types and the five
\* adapter errors.
C1_Witness ==
    /\ Got("RequestTypes") # {}
    /\ Got("AdapterErrors") # {}
    /\ \A c \in Got("RequestTypes") : Len(ret[c].list) = 5

\* C2 as stated: RequestStatuses() returns exactly ok, badinput, err,
\* networkerr and blacklisted-account-or-app.
C2_AsStated ==
    \A c \in Got("RequestStatuses") :
        Range(ret[c].list) =
            {"ok", "badinput", "err", "networkerr", "blacklisted-account-or-app"}

\* C2 amended: RequestStatuses() returns exactly ok, badinput, err, networkerr
\* and blacklistedacctorapp.
C2_RequestStatusTokens ==
    \A c \in Got("RequestStatuses") :
        Range(ret[c].list) =
            {"ok", "badinput", "err", "networkerr", "blacklistedacctorapp"}

\* C2 witness: a call to RequestStatuses() returned its five values.
C2_Witness ==
    \E c \in Got("RequestStatuses") : Cardinality(Range(ret[c].list)) = 5

\* C3 as stated: AdapterErrors() returns exactly badinput, badserverresponse,
\* timeout, failedtorequestbid and unknown.
C3_AsStated ==
    \A c \in Got("AdapterErrors") :
        Range(ret[c].list) =
            {"badinput", "badserverresponse", "timeout", "failedtorequestbid",
             "unknown"}

\* C3 amended: AdapterErrors() returns exactly badinput, badserverresponse,
\* timeout, failedtorequestbid and unknown_error.
C3_AdapterErrorTokens ==
    \A c \in Got("AdapterErrors") :
        Range(ret[c].list) =
            {"badinput", "badserverresponse", "timeout", "failedtorequestbid",
             "unknown_error"}

\* C3 witness: a call to AdapterErrors() returned its five values.
C3_Witness ==
    \E c \in Got("AdapterErrors") : Cardinality(Range(ret[c].list)) = 5

\* The value sets of the specification's table for the other eight dimensions.
TableValues(a) ==
    CASE a = "DemandTypes" -> {"web", "app", "unknown"}
      [] a = "RequestTypes" ->
            {"legacy", "openrtb2-web", "openrtb2-app", "amp", "video"}
      [] a = "ImpTypes" -> {"banner", "video", "audio", "native"}
      [] a = "BrowserTypes" -> {"safari", "other"}
      [] a = "CookieTypes" -> {"exists", "no", "unknown"}
      [] a = "AdapterBids" -> {"bid", "nobid"}
      [] a = "CacheResults" -> {"hit", "miss"}
      [] a = "RequestActions" -> {"set", "opt_out", "gdpr", "err"}

\* C4: the accessors of the other eight dimensions return exactly the value
\* sets of the table.
C4_OtherEightTokens ==
    \A a \in Accessors \ {"RequestStatuses", "AdapterErrors"} :
        \A c \in Got(a) : Range(ret[c].list) = TableValues(a)

\* C4 witness: calls returned the request actions and the cookie flags.
C4_Witness ==
    /\ \E c \in Got("RequestActions") : "opt_out" \in Range(ret[c].list)
    /\ \E c \in Got("CookieTypes") : "exists" \in Range(ret[c].list)

\* C7: every call to an accessor returns the same sequence, the declared
\* constants in declaration order, whatever calls and element writes came
\* before; and the list a caller received changes only by that caller's own
\* writes, never by another caller's calls or writes.
C7_StableLists ==
    /\ \A c \in Callers :
          ret[c] # NoSlice => ret[c].list = Declared(ret[c].acc)
    /\ \A c, d \in Callers :
          (ret[c] # NoSlice /\ ret[d] # NoSlice /\ ret[c].acc = ret[d].acc)
              => ret[c].list = ret[d].list
    /\ \A c \in Callers :
          (held[c] # NoSlice /\ ~dirty[c]) => heap[held[c].addr] = ret[c].list

\* C7 witness: two callers hold the list of the same accessor, one has
\* overwritten an element of its list and the other has not.
C7_Witness ==
    \E c, d \in Callers :
        /\ c # d
        /\ held[c] # NoSlice /\ held[d] # NoSlice
        /\ held[c].acc = held[d].acc
        /\ dirty[c] /\ ~dirty[d]
        /\ heap[held[c].addr] # ret[c].list
        /\ heap[held[d].addr] = ret[d].list

\* The list lengths C10 states.
ClaimedLength(a) ==
    CASE a \in {"DemandTypes", "CookieTypes"} -> 3
      [] a \in {"RequestTypes", "RequestStatuses", "AdapterErrors"} -> 5
      [] a \in {"ImpTypes", "RequestActions"} -> 4
      [] a \in {"BrowserTypes", "AdapterBids", "CacheResults"} -> 2

\* C10: within each type the declared constants have pairwise distinct values
\* and each accessor lists every value exactly once, so the lists have the
\* lengths 3, 5, 4, 2, 3, 5, 2, 5, 2, 4; the tokens shared between dimensions
\* occur in different types only.
C10_DistinctValues ==
    /\ \A c \in Callers :
          ret[c] # NoSlice =>
              /\ Len(ret[c].list) = ClaimedLength(ret[c].acc)
              /\ Cardinality(Range(ret[c].list)) = Len(ret[c].list)
              /\ Cardinality(Range(Declared(ret[c].acc))) =
                    Len(Declared(ret[c].acc))
    /\ \A c \in Got("DemandTypes") : "unknown" \in Range(ret[c].list)
    /\ \A c \in Got("CookieTypes") : "unknown" \in Range(ret[c].list)
    /\ \A c \in Got("RequestTypes") : "video" \in Range(ret[c].list)
    /\ \A c \in Got("ImpTypes") : "video" \in Range(ret[c].list)
    /\ \A c \in Got("RequestStatuses") : {"badinput", "err"} \subseteq Range(ret[c].list)
    /\ \A c \in Got("AdapterErrors") : "badinput" \in Range(ret[c].list)
    /\ \A c \in Got("RequestActions") : "err" \in Range(ret[c].list)

\* C10 witness: calls returned the two adapter-bid values and the five
\* request statuses.
C10_Witness ==
    /\ \E c \in Got("AdapterBids") : Len(ret[c].list) = 2
    /\ \E c \in Got("RequestStatuses") : Len(ret[c].list) = 5

(***************************************************************************)
(* Properties of the label bundles and of the recording interface (checked *)
(* under EngineSpec).                                                      *)
(***************************************************************************)
\* C5 as stated: a PubID the pipeline never assigned on a Labels or
\* AdapterLabels bundle reads as PublisherUnknown ("unknown") at the backend,
\* never as an empty value.
C5_UnsetPubIDReadsUnknown ==
    (pubRead # NoPub /\ ~pubAssigned) => pubRead = PublisherUnknown

\* C6: none of the 17 operations of MetricsEngine declares a result, so the
\* caller of a recording operation never receives a success or failure value.
C6_NoResultValues ==
    /\ Len(MetricsEngine) = 17
    /\ Cardinality(Ops) = 17
    /\ \A op \in Ops : Results(op) = <<>>
    /\ lastRet = <<>>

\* C6 witness: the last of the 17 operations was invoked after another one and
\* handed nothing back.
C6_Witness ==
    /\ lastOp = "RecordPrebidCacheRequestTime"
    /\ ncalls >= 2
    /\ lastRet = <<>>

\* The sum of the values of a function over a finite domain.
RECURSIVE Total(_)
Total(f) ==
    IF DOMAIN f = {} THEN 0
    ELSE LET e == CHOOSE x \in DOMAIN f : TRUE
         IN f[e] + Total([x \in DOMAIN f \ {e} |-> f[x]])

\* C8: an AdapterLabels whose AdapterErrors set has size k causes exactly k
\* error-attributed increments, one for each error of the set; an error that
\* occurred several times is in the set once and is counted once, whatever
\* the order in which the elements are visited.
C8_OneIncrementPerError ==
    adapterCall # NoCall =>
        LET errs == DOMAIN adapterCall.errors
            incs == [e \in DOMAIN errCount |-> errCount[e] - adapterCall.before[e]]
        IN /\ errs = adapterCall.occurred
           /\ errs \subseteq DOMAIN errCount
           /\ \A e \in DOMAIN errCount : incs[e] = IF e \in errs THEN 1 ELSE 0
           /\ Total(incs) = Cardinality(errs)

\* C8 witness: an adapter call failed with two different errors after an
\* earlier call had already been counted, and the backend counted two more
\* increments.
C8_Witness ==
    /\ adapterCall # NoCall
    /\ Cardinality(DOMAIN adapterCall.errors) = 2
    /\ Total(adapterCall.before) >= 1
    /\ Total(errCount) - Total(adapterCall.before) = 2

\* The sum of the increments passed for cache result r in the calls seq.
RECURSIVE PassedFor(_, _)
PassedFor(seq, r) ==
    IF seq = <<>> THEN 0
    ELSE (IF seq[1][1] = r THEN seq[1][2] ELSE 0) + PassedFor(Tail(seq), r)

\* The calls seq in every order.
Reorderings(seq) ==
    {[i \in DOMAIN seq |-> seq[p[i]]] :
        p \in {q \in [DOMAIN seq -> DOMAIN seq] : Range(q) = DOMAIN seq}}

\* The counters after the calls seq on the freshly registered counters.
RECURSIVE Replay(_)
Replay(seq) ==
    IF seq = <<>> THEN Registered(CacheResults)
    ELSE LET last == seq[Len(seq)]
         IN CacheMark(Replay(SubSeq(seq, 1, Len(seq) - 1)), last[1], last[2])

\* C9: after any sequence of RecordStoredReqCacheResult calls the hit and miss
\* totals equal the sums of the increments passed for hit and for miss, and
\* every reordering of the calls yields the same totals; CacheHit 5 and
\* CacheMiss 2 yield hit 5 and miss 2 in either order.
C9_CacheCountsCommute ==
    /\ \A r \in {"hit", "miss"} :
          r \in DOMAIN storedReq /\ storedReq[r] = PassedFor(passed, r)
    /\ \A seq \in Reorderings(passed) : Replay(seq) = storedReq
    /\ passed \in {<<<<"hit", 5>>, <<"miss", 2>>>>, <<<<"miss", 2>>, <<"hit", 5>>>>}
          => ("hit" \in DOMAIN storedReq /\ "miss" \in DOMAIN storedReq
              /\ storedReq["hit"] = 5 /\ storedReq["miss"] = 2)

\* C9 witness: CacheMiss 2 was recorded before CacheHit 5 and the totals are
\* hit 5, miss 2.
C9_Witness ==
    /\ passed = <<<<"miss", 2>>, <<"hit", 5>>>>
    /\ storedReq["hit"] = 5
    /\ storedReq["miss"] = 2

=============================================================================
